---- MODULE Spec2Model ----
(***************************************************************************)
(* Model of the two services of the repository:                            *)
(*   credit-card-validator : luhnAlgorithm behind the validateCard handler *)
(*   nutritional-score     : CalcNutritionalScore behind the               *)
(*                           GetNutritionalScore handler                   *)
(* Both handlers are stateless; the state of the model is a decoded        *)
(* request and the response the handler writes for it.                     *)
(*                                                                         *)
(* Nutrient values and thresholds are float64 in the source.  Every        *)
(* threshold has at most one decimal place, so the model keeps all of      *)
(* them in tenths of the source unit (4.7 g is 47, 3350 kJ is 33500);      *)
(* comparisons between such values are exact in float64 as well.           *)
(***************************************************************************)
EXTENDS Integers, Sequences, FiniteSets

VARIABLES cardNumber, response,
          nutritionalInfo, nutri_score,
          gradeCall, gradeRet,
          rangeCall, rangeRet

vars == <<cardNumber, response, nutritionalInfo, nutri_score,
          gradeCall, gradeRet, rangeCall, rangeRet>>

luhnVars == <<cardNumber, response>>
nutriVars == <<nutritionalInfo, nutri_score>>
gradeVars == <<gradeCall, gradeRet>>
rangeVars == <<rangeCall, rangeRet>>

(***************************************************************************)
(* credit-card-validator/main.go                                           *)
(***************************************************************************)

\* Longest card number enumerated exhaustively.
MaxLen == 4

\* The ten ASCII digits, indexed by value + 1.
DigitChars == <<"0", "1", "2", "3", "4", "5", "6", "7", "8", "9">>

\* Runes that are not ASCII digits: a letter, a sign (one byte each) and a
\* two-byte rune.
NonDigitChars == {"a", "-", "U+00E9"}

Chars == {DigitChars[k] : k \in 1..10} \cup NonDigitChars

\* Number of bytes of the UTF-8 encoding of a rune.
RuneLen(c) == IF c = "U+00E9" THEN 2 ELSE 1

\* len(input): the length of a Go string is its length in bytes.
RECURSIVE ByteLen(_)
ByteLen(input) ==
    IF input = <<>> THEN 0 ELSE RuneLen(Head(input)) + ByteLen(Tail(input))

\* A bug that drops the error of strconv.Atoi: a non-digit parses as 0.
AtoiIgnoreErr(c) ==
    IF \E d \in 0..9 : DigitChars[d + 1] = c
    THEN [digit |-> CHOOSE d \in 0..9 : DigitChars[d + 1] = c, err |-> FALSE]
    ELSE [digit |-> 0, err |-> FALSE]

\* strconv.Atoi(string(char)) of a single rune: the value of an ASCII digit,
\* a syntax error for anything else (a lone sign included).
Atoi(c) ==
    IF \E d \in 0..9 : DigitChars[d + 1] = c
    THEN [digit |-> CHOOSE d \in 0..9 : DigitChars[d + 1] = c, err |-> FALSE]
    ELSE [digit |-> 0, err |-> TRUE]

\* The loop of lines 21-28: k is the position of the rune, off its byte
\* offset (the index range yields).  The outcome is the slice, "false" for
\* the early return, or a panic when the index is out of the slice's range.
RECURSIVE ParseLoop(_, _, _, _)
ParseLoop(input, k, off, digits) ==
    IF k > Len(input) THEN [kind |-> "ok", digits |-> digits]
    ELSE LET a == Atoi(input[k]) IN
         IF a.err THEN [kind |-> "false", digits |-> digits]
         ELSE IF off + 1 \notin DOMAIN digits
              THEN [kind |-> "panic", digits |-> digits]
              ELSE ParseLoop(input, k + 1, off + RuneLen(input[k]),
                             [digits EXCEPT ![off + 1] = a.digit])

\* A bug that doubles without the subtraction of 9.
DoubledNoAdjust(d) == d * 2

\* Lines 32-35: the doubled digit, minus 9 when it exceeds 9.
Doubled(d) == IF d * 2 > 9 THEN d * 2 - 9 ELSE d * 2

\* The loop of lines 31-37, from index i (0-based) down in steps of two.
RECURSIVE DoubleLoop(_, _)
DoubleLoop(digits, i) ==
    IF i < 0 THEN digits
    ELSE DoubleLoop([digits EXCEPT ![i + 1] = Doubled(digits[i + 1])], i - 2)

\* The loop of lines 40-43.
RECURSIVE SumLoop(_, _, _)
SumLoop(digits, k, sum) ==
    IF k > Len(digits) THEN sum ELSE SumLoop(digits, k + 1, sum + digits[k])

\* A bug that starts the doubling at the last digit instead of the one
\* before it.
doubledDigitsFromLast(digits) == DoubleLoop(digits, Len(digits) - 1)

\* Lines 30-37: the slice after the doubling loop, which starts at
\* len(digits) - 2.
doubledDigits(digits) == DoubleLoop(digits, Len(digits) - 2)

\* luhnAlgorithm, lines 17-47.  "true" and "false" are the two results; a
\* run-time panic is kept as a third outcome.
luhnAlgorithm(input) ==
    LET parsed == ParseLoop(input, 1, 0, [j \in 1..ByteLen(input) |-> 0]) IN
    IF parsed.kind = "panic" THEN "panic"
    ELSE IF parsed.kind = "false" THEN "false"
    ELSE LET sum == SumLoop(doubledDigits(parsed.digits), 1, 0)
         IN IF sum % 10 = 0 THEN "true" ELSE "false"

\* The value of an ASCII digit.
DigitValue(c) == CHOOSE d \in 0..9 : DigitChars[d + 1] = c

IsDigitChar(c) == \E d \in 0..9 : DigitChars[d + 1] = c

AllDigits(s) == \A i \in 1..Len(s) : IsDigitChar(s[i])

\* Longest card number enumerated with runes that are not digits.
MaxMixedLen == 3

\* Every string of at most n runes drawn from alphabet.
RECURSIVE StringsUpTo(_, _)
StringsUpTo(n, alphabet) ==
    IF n = 0 THEN {<<>>}
    ELSE LET shorter == StringsUpTo(n - 1, alphabet) IN
         shorter \cup {Append(s, c) : s \in {t \in shorter : Len(t) = n - 1},
                                      c \in alphabet}

\* The test card of the specification, its tampered variant and the
\* specification's card number with a letter.
KnownValidCard ==
    <<"4", "5", "3", "9", "1", "4", "8", "8", "0", "3", "4", "3", "6", "4", "6", "7">>
KnownTamperedCard ==
    <<"4", "5", "3", "9", "1", "4", "8", "8", "0", "3", "4", "3", "6", "4", "6", "8">>

KnownLetterCard == <<"1", "2", "a", "4">>

\* The request bodies: every digit string of at most MaxLen digits, every
\* string of at most MaxMixedLen runes, and the three known cards.
CardNumbers ==
    StringsUpTo(MaxLen, {DigitChars[k] : k \in 1..10})
        \cup StringsUpTo(MaxMixedLen, Chars)
        \cup {KnownValidCard, KnownTamperedCard, KnownLetterCard}

\* validateCard, lines 49-56: run luhnAlgorithm on the decoded card number
\* and encode the result as the response body ("" is no body yet).
validateCard ==
    /\ response = ""
    /\ response' = luhnAlgorithm(cardNumber)
    /\ UNCHANGED <<cardNumber, nutriVars, gradeVars, rangeVars>>

(***************************************************************************)
(* nutritional-score/nutritionalscore.go                                   *)
(***************************************************************************)

\* ScoreType, lines 14-19.
Food == 0
Beverage == 1
Water == 2
Cheese == 3

\* The four declared categories and one tag outside them: FoodType is an
\* int decoded from the request without validation.
ScoreTypes == {Food, Beverage, Water, Cheese, Cheese + 1}

gradeScale == <<"A", "B", "C", "D", "E">>

\* A bug in the first energy threshold (3400 for 3350).
energyLevelsShifted ==
    <<34000, 30150, 26800, 23450, 20100, 16750, 13400, 10050, 6700, 3350>>

\* The threshold tables, lines 35-43, in tenths.
energyLevels ==
    <<33500, 30150, 26800, 23450, 20100, 16750, 13400, 10050, 6700, 3350>>
sugarsLevels == <<450, 400, 360, 310, 270, 225, 180, 135, 90, 45>>
saturatedFattyAcidsLevels == <<100, 90, 80, 70, 60, 50, 40, 30, 20, 10>>
sodiumLevels == <<9000, 8100, 7200, 6300, 5400, 4500, 3600, 2700, 1800, 900>>
fiberLevels == <<47, 37, 28, 19, 9>>
proteinLevels == <<80, 64, 48, 32, 16>>
energyLevelsBeverage == <<2700, 2400, 2100, 1800, 1500, 1200, 900, 600, 300, 0>>
sugarsLevelsBeverage == <<135, 120, 105, 90, 75, 60, 45, 30, 15, 0>>

\* The loop of lines 191-196 from index i (0-based).
RECURSIVE RangeLoop(_, _, _)
RangeLoop(v, levels, i) ==
    IF i >= Len(levels) THEN 0
    ELSE IF v > levels[i + 1] THEN Len(levels) - i
    ELSE RangeLoop(v, levels, i + 1)

\* A bug that compares with >= : a value equal to a threshold gets its tier.
RECURSIVE RangeLoopInclusive(_, _, _)
RangeLoopInclusive(v, levels, i) ==
    IF i >= Len(levels) THEN 0
    ELSE IF v >= levels[i + 1] THEN Len(levels) - i
    ELSE RangeLoopInclusive(v, levels, i + 1)

getPointsFromRangeInclusive(v, levels) == RangeLoopInclusive(v, levels, 0)

\* A bug that returns the index of the threshold instead of the tier.
RECURSIVE RangeLoopIndex(_, _, _)
RangeLoopIndex(v, levels, i) ==
    IF i >= Len(levels) THEN 0
    ELSE IF v > levels[i + 1] THEN i
    ELSE RangeLoopIndex(v, levels, i + 1)

getPointsFromRangeIndex(v, levels) == RangeLoopIndex(v, levels, 0)

\* getPointsFromRange, lines 189-197.
getPointsFromRange(v, levels) == RangeLoop(v, levels, 0)

\* EnergyKJ.GetPoints, lines 85-90.
EnergyGetPoints(e, st) ==
    IF st = Beverage THEN getPointsFromRange(e, energyLevelsBeverage)
    ELSE getPointsFromRange(e, energyLevels)

\* SugarGram.GetPoints, lines 93-98.
SugarGetPoints(s, st) ==
    IF st = Beverage THEN getPointsFromRange(s, sugarsLevelsBeverage)
    ELSE getPointsFromRange(s, sugarsLevels)

\* SaturatedFattyAcids.GetPoints, lines 101-103.
SaturatedFattyAcidsGetPoints(sfa, st) ==
    getPointsFromRange(sfa, saturatedFattyAcidsLevels)

\* SodiumMilligram.GetPoints, lines 106-108.
SodiumGetPoints(s, st) == getPointsFromRange(s, sodiumLevels)

\* FruitsPercent.GetPoints, lines 111-130 (80, 60 and 40 percent in tenths).
FruitsGetPoints(f, st) ==
    IF st = Beverage
    THEN IF f > 800 THEN 10 ELSE IF f > 600 THEN 4 ELSE IF f > 400 THEN 2 ELSE 0
    ELSE IF f > 800 THEN 5 ELSE IF f > 600 THEN 2 ELSE IF f > 400 THEN 1 ELSE 0

\* FiberGram.GetPoints, lines 133-135.
FiberGetPoints(f, st) == getPointsFromRange(f, fiberLevels)

\* ProteinGram.GetPoints, lines 138-140.
ProteinGetPoints(p, st) == getPointsFromRange(p, proteinLevels)

\* gradeScale[k] for a 0-based k; an index out of range panics.
GradeAt(k) == IF k + 1 \in DOMAIN gradeScale THEN gradeScale[k + 1] ELSE "panic"

\* A bug that drops the Water branch.
CalcNutriGradeNoWater(ns, score) ==
    IF ns.FoodType = Food
    THEN GradeAt(getPointsFromRange(score, <<18, 10, 2, -1>>))
    ELSE GradeAt(getPointsFromRange(score, <<9, 5, 1, -2>>))

\* A bug that swaps the two breakpoint tables.
CalcNutriGradeSwapped(ns, score) ==
    IF ns.FoodType = Food
    THEN GradeAt(getPointsFromRange(score, <<9, 5, 1, -2>>))
    ELSE IF ns.FoodType = Water THEN GradeAt(0)
    ELSE GradeAt(getPointsFromRange(score, <<18, 10, 2, -1>>))

\* NutritionalData.CalcNutriGrade, lines 179-187.  The score is an int, so
\* it and the breakpoints are kept as they are, not in tenths.
CalcNutriGrade(ns, score) ==
    IF ns.FoodType = Food
    THEN GradeAt(getPointsFromRange(score, <<18, 10, 2, -1>>))
    ELSE IF ns.FoodType = Water THEN GradeAt(0)
    ELSE GradeAt(getPointsFromRange(score, <<9, 5, 1, -2>>))

\* The result record of lines 170-176.
NutritionalScore(value, grade, positive, negative, st) ==
    [Value |-> value, Grade |-> grade, Positive |-> positive,
     Negative |-> negative, ScoreType |-> st]

\* A bug that applies the override of page 27 to cheeses as well.
CalcNutritionalScoreNoCheese(n) ==
    LET st == n.FoodType
        fruitPoints == FruitsGetPoints(n.Fruits, st)
        fibrePoints == FiberGetPoints(n.Fiber, st)
        negative == EnergyGetPoints(n.Energy, st) + SugarGetPoints(n.Sugars, st)
                    + SaturatedFattyAcidsGetPoints(n.SaturatedFattyAcids, st)
                    + SodiumGetPoints(n.Sodium, st)
        positive == fruitPoints + fibrePoints + ProteinGetPoints(n.Protein, st)
        value == IF negative >= 11 /\ fruitPoints < 5
                 THEN negative - fibrePoints - fruitPoints
                 ELSE negative - positive
    IN IF st # Water
       THEN NutritionalScore(value, CalcNutriGrade(n, value), positive, negative, st)
       ELSE NutritionalScore(0, CalcNutriGrade(n, 0), 0, 0, st)

\* A bug that lets the water flag skip the aggregation.
CalcNutritionalScoreWaterFlag(n) ==
    LET st == n.FoodType
        fruitPoints == FruitsGetPoints(n.Fruits, st)
        fibrePoints == FiberGetPoints(n.Fiber, st)
        negative == EnergyGetPoints(n.Energy, st) + SugarGetPoints(n.Sugars, st)
                    + SaturatedFattyAcidsGetPoints(n.SaturatedFattyAcids, st)
                    + SodiumGetPoints(n.Sodium, st)
        positive == fruitPoints + fibrePoints + ProteinGetPoints(n.Protein, st)
        value == IF st = Cheese THEN negative - positive
                 ELSE IF negative >= 11 /\ fruitPoints < 5
                      THEN negative - fibrePoints - fruitPoints
                      ELSE negative - positive
    IN IF st # Water /\ ~n.IsWater
       THEN NutritionalScore(value, CalcNutriGrade(n, value), positive, negative, st)
       ELSE NutritionalScore(0, CalcNutriGrade(n, 0), 0, 0, st)

\* CalcNutritionalScore, lines 143-177: value, positive and negative stay 0
\* when the category is Water.
CalcNutritionalScore(n) ==
    LET st == n.FoodType
        fruitPoints == FruitsGetPoints(n.Fruits, st)
        fibrePoints == FiberGetPoints(n.Fiber, st)
        negative == EnergyGetPoints(n.Energy, st) + SugarGetPoints(n.Sugars, st)
                    + SaturatedFattyAcidsGetPoints(n.SaturatedFattyAcids, st)
                    + SodiumGetPoints(n.Sodium, st)
        positive == fruitPoints + fibrePoints + ProteinGetPoints(n.Protein, st)
        value == IF st = Cheese THEN negative - positive
                 ELSE IF negative >= 11 /\ fruitPoints < 5
                      THEN negative - fibrePoints - fruitPoints
                      ELSE negative - positive
    IN IF st # Water
       THEN NutritionalScore(value, CalcNutriGrade(n, value), positive, negative, st)
       ELSE NutritionalScore(0, CalcNutriGrade(n, 0), 0, 0, st)

\* The nutrient values the requests carry, in tenths: values below, on and
\* above thresholds of the food and beverage tables, and a negative one.
EnergyVals == {-10, 0, 2700, 33500, 33700}
SugarsVals == {0, 45, 460}
SaturatedFattyAcidsVals == {0, 55, 100}
SodiumVals == {0, 4500, 9010}
FruitsVals == {0, 410, 800, 801}
FiberVals == {0, 48}
ProteinVals == {0, 80}

\* NutritionalData, lines 21-31.
NutritionalData ==
    [Energy : EnergyVals, Sugars : SugarsVals,
     SaturatedFattyAcids : SaturatedFattyAcidsVals, Sodium : SodiumVals,
     Fruits : FruitsVals, Fiber : FiberVals, Protein : ProteinVals,
     IsWater : BOOLEAN, FoodType : ScoreTypes]

\* The zero values of NutritionalData and NutritionalScore.
ZeroData ==
    [Energy |-> 0, Sugars |-> 0, SaturatedFattyAcids |-> 0, Sodium |-> 0,
     Fruits |-> 0, Fiber |-> 0, Protein |-> 0, IsWater |-> FALSE,
     FoodType |-> Food]
ZeroScore == NutritionalScore(0, "", 0, 0, Food)

\* GetNutritionalScore, lines 199-210: score the decoded data and encode
\* the result (a Grade of "" is no result yet).
GetNutritionalScore ==
    /\ nutri_score = ZeroScore
    /\ nutri_score' = CalcNutritionalScore(nutritionalInfo)
    /\ UNCHANGED <<nutritionalInfo, luhnVars, gradeVars, rangeVars>>

\* Largest magnitude of a score passed to CalcNutriGrade directly.
MaxScore == 40

\* A direct call of CalcNutriGrade with any score.
CallCalcNutriGrade ==
    /\ gradeRet = ""
    /\ gradeRet' = CalcNutriGrade(gradeCall.ns, gradeCall.score)
    /\ UNCHANGED <<gradeCall, luhnVars, nutriVars, rangeVars>>

\* Length of the longest threshold sequence and the largest threshold of
\* the direct calls of getPointsFromRange.
MaxLevels == 3
MaxThreshold == 4

Thresholds == 0..MaxThreshold

LevelSeqs == UNION {[1..k -> Thresholds] : k \in 0..MaxLevels}

\* A direct call of getPointsFromRange with any value and thresholds (a
\* result of -1 is no result yet).
CallGetPointsFromRange ==
    /\ rangeRet = -1
    /\ rangeRet' = getPointsFromRange(rangeCall.v, rangeCall.levels)
    /\ UNCHANGED <<rangeCall, luhnVars, nutriVars, gradeVars>>

(***************************************************************************)
(* Specifications.  The two services are separate programs, and the two    *)
(* helper functions are also exercised on their own over inputs the        *)
(* handlers never pass them; each has its own initial states.              *)
(***************************************************************************)

IdleLuhn == cardNumber = <<>> /\ response = ""
IdleNutri == nutritionalInfo = ZeroData /\ nutri_score = ZeroScore
IdleGrade == gradeCall = [ns |-> ZeroData, score |-> 0] /\ gradeRet = ""
IdleRange == rangeCall = [v |-> 0, levels |-> <<>>] /\ rangeRet = -1

InitLuhn ==
    /\ cardNumber \in CardNumbers
    /\ response = ""
    /\ IdleNutri /\ IdleGrade /\ IdleRange

InitNutri ==
    /\ nutritionalInfo \in NutritionalData
    /\ nutri_score = ZeroScore
    /\ IdleLuhn /\ IdleGrade /\ IdleRange

InitGrade ==
    /\ gradeCall \in [ns : {[ZeroData EXCEPT !.FoodType = st] : st \in ScoreTypes},
                      score : -MaxScore..MaxScore]
    /\ gradeRet = ""
    /\ IdleLuhn /\ IdleNutri /\ IdleRange

InitRange ==
    /\ rangeCall \in [v : -1..MaxThreshold + 1, levels : LevelSeqs]
    /\ rangeRet = -1
    /\ IdleLuhn /\ IdleNutri /\ IdleGrade

Init == InitLuhn \/ InitNutri \/ InitGrade \/ InitRange

NextLuhn == validateCard
NextNutri == GetNutritionalScore
NextGrade == CallCalcNutriGrade
NextRange == CallGetPointsFromRange

Next == NextLuhn \/ NextNutri \/ NextGrade \/ NextRange

SpecLuhn == InitLuhn /\ [][NextLuhn]_vars
SpecNutri == InitNutri /\ [][NextNutri]_vars
SpecGrade == InitGrade /\ [][NextGrade]_vars
SpecRange == InitRange /\ [][NextRange]_vars
Spec == Init /\ [][Next]_vars

(***************************************************************************)
(* Properties of credit-card-validator, checked under SpecLuhn.            *)
(***************************************************************************)

\* The handler has written its response.
Validated == response # ""

\* The Luhn term of position i (1-based) of a digit string: the digit
\* itself at an even distance from the end, its double (minus 9 above 9) at
\* an odd distance.
LuhnTerm(s, i) ==
    LET d == DigitValue(s[i]) IN
    IF (Len(s) - i) % 2 = 0 THEN d
    ELSE IF 2 * d > 9 THEN 2 * d - 9 ELSE 2 * d

RECURSIVE LuhnSumTo(_, _)
LuhnSumTo(s, n) == IF n = 0 THEN 0 ELSE LuhnTerm(s, n) + LuhnSumTo(s, n - 1)

LuhnSum(s) == LuhnSumTo(s, Len(s))

\* C1: a digit string (the empty and the one-digit string included) is
\* accepted exactly when its Luhn sum is a multiple of 10; the slice the
\* code sums holds the Luhn term of every position, so the empty string is
\* accepted and the digit of a one-digit string is left as it is.
C1_LuhnSumRule ==
    (Validated /\ AllDigits(cardNumber)) =>
        LET raw == [i \in 1..Len(cardNumber) |-> DigitValue(cardNumber[i])]
            summed == doubledDigits(raw)
        IN /\ response = (IF LuhnSum(cardNumber) % 10 = 0 THEN "true" ELSE "false")
           /\ summed = [i \in 1..Len(cardNumber) |-> LuhnTerm(cardNumber, i)]
           /\ (cardNumber = <<>> => response = "true")
           /\ (Len(cardNumber) = 1 => summed = raw)

\* C1 witness: an accepted four-digit string whose digit at len-4 is
\* doubled past 9.
C1_Witness ==
    /\ response = "true"
    /\ Len(cardNumber) = 4
    /\ AllDigits(cardNumber)
    /\ DigitValue(cardNumber[1]) >= 5

\* C2: an input with a rune that is not a decimal digit, wherever it
\* stands, is answered false, and the call does not panic.
C2_NonDigitRejected ==
    (Validated /\ ~AllDigits(cardNumber)) => response = "false"

\* C2 witness: the input 12a4 has been answered.
C2_Witness == cardNumber = KnownLetterCard /\ response = "false"

\* The strings that differ from s in exactly one digit.
Tampered(s) ==
    {[s EXCEPT ![i] = DigitChars[d + 1]] :
        i \in 1..Len(s), d \in 0..9} \ {s}

\* C3: replacing one digit of an accepted non-empty digit string by any
\* other digit gives a string the algorithm rejects.
C3_SingleDigitTamper ==
    (response = "true" /\ cardNumber # <<>> /\ AllDigits(cardNumber)) =>
        \A t \in Tampered(cardNumber) : luhnAlgorithm(t) = "false"

\* C3 witness: the known valid card has been accepted.
C3_Witness == cardNumber = KnownValidCard /\ response = "true"

(***************************************************************************)
(* Properties of nutritional-score, checked under SpecNutri.               *)
(***************************************************************************)

\* The handler has computed the score.
Scored == nutri_score.Grade # ""

\* C4: a Water sample gets score 0, grade A and both subtotals 0, whatever
\* its nutrient values.
C4_WaterAlwaysA ==
    (Scored /\ nutritionalInfo.FoodType = Water) =>
        /\ nutri_score.Value = 0
        /\ nutri_score.Grade = "A"
        /\ nutri_score.Positive = 0
        /\ nutri_score.Negative = 0

\* C4 witness: a scored Water sample with the highest energy, sugar and
\* sodium values.
C4_Witness ==
    /\ Scored
    /\ nutritionalInfo.FoodType = Water
    /\ nutritionalInfo.Energy = 33700
    /\ nutritionalInfo.Sugars = 460
    /\ nutritionalInfo.Sodium = 9010

\* The Food sample with energy 3370 kJ and every other nutrient 0.
IsEnergyOnlyFood ==
    /\ nutritionalInfo.FoodType = Food
    /\ nutritionalInfo.Energy = 33700
    /\ nutritionalInfo.Sugars = 0
    /\ nutritionalInfo.SaturatedFattyAcids = 0
    /\ nutritionalInfo.Sodium = 0
    /\ nutritionalInfo.Fruits = 0
    /\ nutritionalInfo.Fiber = 0
    /\ nutritionalInfo.Protein = 0

\* C5 as stated: the Food sample with energy 3370 kJ and nothing else has
\* negative points 10, positive points 0, score 10 and grade B.
C5_EnergyOnlyFoodGradeB ==
    (Scored /\ IsEnergyOnlyFood) =>
        /\ nutri_score.Negative = 10
        /\ nutri_score.Positive = 0
        /\ nutri_score.Value = 10
        /\ nutri_score.Grade = "B"

\* C5 amended: the Food sample with energy 3370 kJ and nothing else has
\* negative points 10, positive points 0, score 10 and grade C.
C5_EnergyOnlyFoodGradeC ==
    (Scored /\ IsEnergyOnlyFood) =>
        /\ nutri_score.Negative = 10
        /\ nutri_score.Positive = 0
        /\ nutri_score.Value = 10
        /\ nutri_score.Grade = "C"

\* C5 witness: that sample has been scored.
C5_Witness == Scored /\ IsEnergyOnlyFood /\ nutri_score.Value = 10

\* The point values of the input of the current request.
FruitPts == FruitsGetPoints(nutritionalInfo.Fruits, nutritionalInfo.FoodType)
FiberPts == FiberGetPoints(nutritionalInfo.Fiber, nutritionalInfo.FoodType)
ProteinPts == ProteinGetPoints(nutritionalInfo.Protein, nutritionalInfo.FoodType)
NegativePts ==
    EnergyGetPoints(nutritionalInfo.Energy, nutritionalInfo.FoodType)
    + SugarGetPoints(nutritionalInfo.Sugars, nutritionalInfo.FoodType)
    + SaturatedFattyAcidsGetPoints(nutritionalInfo.SaturatedFattyAcids,
                                   nutritionalInfo.FoodType)
    + SodiumGetPoints(nutritionalInfo.Sodium, nutritionalInfo.FoodType)

\* C6: for a category other than Water the score is negative - fiber -
\* fruit when the category is not Cheese, negative >= 11 and fruit points
\* < 5, and negative - positive in every other case, so always for Cheese.
C6_CombinationRule ==
    (Scored /\ nutritionalInfo.FoodType # Water) =>
        /\ nutri_score.Negative = NegativePts
        /\ nutri_score.Positive = FruitPts + FiberPts + ProteinPts
        /\ (nutritionalInfo.FoodType # Cheese /\ NegativePts >= 11 /\ FruitPts < 5)
               => nutri_score.Value = NegativePts - FiberPts - FruitPts
        /\ ~(nutritionalInfo.FoodType # Cheese /\ NegativePts >= 11 /\ FruitPts < 5)
               => nutri_score.Value = NegativePts - (FruitPts + FiberPts + ProteinPts)
        /\ nutritionalInfo.FoodType = Cheese
               => nutri_score.Value = nutri_score.Negative - nutri_score.Positive

\* C6 witness: a Food sample on the override path whose protein points are
\* left out of the score.
C6_Witness ==
    /\ Scored
    /\ nutritionalInfo.FoodType = Food
    /\ NegativePts >= 11
    /\ FruitPts < 5
    /\ ProteinPts > 0
    /\ nutri_score.Value = NegativePts - FiberPts - FruitPts
    /\ nutri_score.Value # nutri_score.Negative - nutri_score.Positive

\* One value of every tier of a threshold table: each threshold (the top
\* value of the tier below it) and the value just above the highest.
TierValues(levels) == {levels[i] : i \in DOMAIN levels} \cup {levels[1] + 1}

\* The Negative subtotal of a request.
NegativeOf(n) == CalcNutritionalScore(n).Negative

\* Replacing a nutrient value by w moves the Negative subtotal the way the
\* value moves (old is the value replaced, changed the changed request).
MovesWith(old, w, changed) ==
    /\ w >= old => NegativeOf(changed) >= nutri_score.Negative
    /\ w <= old => NegativeOf(changed) <= nutri_score.Negative

\* C7: with the category and every other field fixed, a larger value of
\* energy, sugar, saturated fat or sodium never has a smaller Negative
\* subtotal.
C7_NegativeMonotone ==
    Scored =>
        /\ \A w \in EnergyVals \cup TierValues(energyLevels)
                               \cup TierValues(energyLevelsBeverage) :
              MovesWith(nutritionalInfo.Energy, w,
                        [nutritionalInfo EXCEPT !.Energy = w])
        /\ \A w \in SugarsVals \cup TierValues(sugarsLevels)
                               \cup TierValues(sugarsLevelsBeverage) :
              MovesWith(nutritionalInfo.Sugars, w,
                        [nutritionalInfo EXCEPT !.Sugars = w])
        /\ \A w \in SaturatedFattyAcidsVals
                      \cup TierValues(saturatedFattyAcidsLevels) :
              MovesWith(nutritionalInfo.SaturatedFattyAcids, w,
                        [nutritionalInfo EXCEPT !.SaturatedFattyAcids = w])
        /\ \A w \in SodiumVals \cup TierValues(sodiumLevels) :
              MovesWith(nutritionalInfo.Sodium, w,
                        [nutritionalInfo EXCEPT !.Sodium = w])

\* C7 witness: a scored Food sample whose energy is exactly the top
\* threshold (9 points), which a larger energy value strictly exceeds.
C7_Witness ==
    /\ Scored
    /\ nutritionalInfo.FoodType = Food
    /\ nutritionalInfo.Energy = 33500
    /\ nutri_score.Negative = 9
    /\ NegativeOf([nutritionalInfo EXCEPT !.Energy = 33501]) = 10

\* C10: the water flag changes nothing: the request with the flag flipped
\* has the same result, and a Food sample with the flag set is scored and
\* graded as Food.
C10_WaterFlagIgnored ==
    Scored =>
        /\ CalcNutritionalScore([nutritionalInfo EXCEPT !.IsWater = ~@]) = nutri_score
        /\ (nutritionalInfo.IsWater /\ nutritionalInfo.FoodType = Food) =>
               /\ nutri_score.ScoreType = Food
               /\ nutri_score.Negative = NegativePts
               /\ nutri_score.Grade =
                      GradeAt(getPointsFromRange(nutri_score.Value, <<18, 10, 2, -1>>))

\* C10 witness: a scored Food sample with the water flag set and a grade
\* below A.
C10_Witness ==
    /\ Scored
    /\ nutritionalInfo.IsWater
    /\ nutritionalInfo.FoodType = Food
    /\ nutri_score.Negative >= 11
    /\ nutri_score.Grade \in {"D", "E"}

(***************************************************************************)
(* Properties of CalcNutriGrade, checked under SpecGrade.                  *)
(***************************************************************************)

\* The letter of a score for the breakpoints e > d > c > b.
LetterFor(score, e, d, c, b) ==
    IF score <= b THEN "A"
    ELSE IF score <= c THEN "B"
    ELSE IF score <= d THEN "C"
    ELSE IF score <= e THEN "D"
    ELSE "E"

\* C8: the grade of a score is A up to -1, B up to 2, C up to 10, D up to
\* 18 and E above for Food, and A up to -2, B up to 1, C up to 5, D up to 9
\* and E above for Beverage and Cheese; it is gradeScale at the lookup
\* result, which is within 0..4, so the grade is one of A to E.
C8_GradeMapping ==
    gradeRet # "" =>
        LET st == gradeCall.ns.FoodType
            score == gradeCall.score
        IN /\ gradeRet \in {"A", "B", "C", "D", "E"}
           /\ st = Food =>
                 /\ gradeRet = LetterFor(score, 18, 10, 2, -1)
                 /\ getPointsFromRange(score, <<18, 10, 2, -1>>) \in 0..4
                 /\ gradeRet = gradeScale[getPointsFromRange(score, <<18, 10, 2, -1>>) + 1]
           /\ st \in {Beverage, Cheese} =>
                 /\ gradeRet = LetterFor(score, 9, 5, 1, -2)
                 /\ getPointsFromRange(score, <<9, 5, 1, -2>>) \in 0..4
                 /\ gradeRet = gradeScale[getPointsFromRange(score, <<9, 5, 1, -2>>) + 1]

\* C8 witness: a Food score of exactly 18 has been graded D.
C8_Witness ==
    /\ gradeCall.ns.FoodType = Food
    /\ gradeCall.score = 18
    /\ gradeRet = "D"

(***************************************************************************)
(* Properties of getPointsFromRange, checked under SpecRange.              *)
(***************************************************************************)

StrictlyDescending(levels) ==
    \A i \in 1..Len(levels) - 1 : levels[i] > levels[i + 1]

\* C9: for strictly descending thresholds the result is len - i for the
\* first index i (0-based) with v > levels[i] and 0 when there is none; it
\* is within 0..len, and a value equal to a threshold gets the tier below.
C9_ThresholdLookup ==
    (rangeRet # -1 /\ StrictlyDescending(rangeCall.levels)) =>
        LET v == rangeCall.v
            levels == rangeCall.levels
            n == Len(levels)
        IN /\ rangeRet \in 0..n
           /\ \A i \in 0..n - 1 :
                 (v > levels[i + 1] /\ \A j \in 0..i - 1 : ~(v > levels[j + 1]))
                     => rangeRet = n - i
           /\ (\A i \in 0..n - 1 : ~(v > levels[i + 1])) => rangeRet = 0
           /\ \A i \in 0..n - 1 : v = levels[i + 1] => rangeRet = n - i - 1

\* C9 witness: a value equal to the middle one of three descending
\* thresholds got the tier below it.
C9_Witness ==
    /\ Len(rangeCall.levels) = 3
    /\ StrictlyDescending(rangeCall.levels)
    /\ rangeCall.v = rangeCall.levels[2]
    /\ rangeRet = 1

====
